---- MODULE Spec2Model ----
(***************************************************************************)
(* A state-machine model of collectd's OpenVPN plugin (src/openvpn.c).     *)
(*                                                                         *)
(* A status file is a TLA+ string, read character by character: fgets      *)
(* cuts it into lines at "\n", openvpn_strsplit cuts a line into fields    *)
(* with strtok_r on "," and tab, atoll parses decimal digits.  One action  *)
(* models one iteration of a parser's fgets loop, so that read cycles      *)
(* advance at line granularity.                                            *)
(*                                                                         *)
(* derive_t is a signed two's-complement integer.  TLC has no 64-bit       *)
(* integers, so the width is DeriveBits; every number written in a status  *)
(* file of the model fits that width.                                      *)
(***************************************************************************)
EXTENDS Integers, Sequences, FiniteSets, TLC

(***************************************************************************)
(* Bounds of the model.                                                    *)
(***************************************************************************)
\* width of derive_t in the model (64 in the program)
DeriveBits == 12
\* number of lines after the title line in the enumerated status files
MaxLines == 2
\* the read cycles a callback runs
MaxCycles == 2

(***************************************************************************)
(* Program constants.                                                      *)
(***************************************************************************)
TITLE_SINGLE == "OpenVPN STATISTICS\n"
TITLE_V1 == "OpenVPN CLIENT LIST\n"
TITLE_V2 == "TITLE"
V1HEADER == "Common Name,Real Address,Bytes Received,Bytes Sent,Connected Since\n"
\* char buffer[1024]
BufferSize == 1024
\* char *fields[4] in single_read
SingleMaxFields == 4
\* char *fields[10] in multi1_read
Multi1MaxFields == 10
\* char *fields[20] in multi2_read
Multi2MaxFields == 20

(***************************************************************************)
(* C strings, character by character.                                      *)
(***************************************************************************)
CharAt(str, i) == SubSeq(str, i, i)

\* a char * that may be NULL: the empty set, or the set of the one string
NULL == {}
Ptr(str) == {str}
Deref(p) == CHOOSE str \in p : TRUE

strcmp(a, b) == IF a = b THEN 0 ELSE 1

strncmp(a, b, n) ==
  LET pa == SubSeq(a, 1, IF Len(a) < n THEN Len(a) ELSE n)
      pb == SubSeq(b, 1, IF Len(b) < n THEN Len(b) ELSE n)
  IN IF pa = pb THEN 0 ELSE 1

strlen(a) == Len(a)

\* the delimiters handed to strtok_r
Delimiters == {",", "\t"}

RECURSIVE SkipDelimiters(_, _)
SkipDelimiters(str, p) ==
  IF p > Len(str) THEN p
  ELSE IF CharAt(str, p) \in Delimiters THEN SkipDelimiters(str, p + 1)
  ELSE p

RECURSIVE TokenEnd(_, _)
TokenEnd(str, p) ==
  IF p > Len(str) THEN p
  ELSE IF CharAt(str, p) \in Delimiters THEN p
  ELSE TokenEnd(str, p + 1)

\* strtok_r(ptr, ",\t", &saveptr) resumed at position p of the buffer: NULL,
\* or the next non-empty token and the position scanning resumes from
strtok_r(str, p) ==
  LET b == SkipDelimiters(str, p)
      e == TokenEnd(str, b)
  IN IF b > Len(str) THEN [tok |-> NULL, save |-> b]
     ELSE [tok |-> Ptr(SubSeq(str, b, e - 1)), save |-> e + 1]

RECURSIVE StrsplitLoop(_, _, _, _)
StrsplitLoop(str, p, fields, size) ==
  LET t == strtok_r(str, p)
  IN IF t.tok = NULL THEN fields
     ELSE IF Len(fields) + 1 >= size THEN Append(fields, Deref(t.tok))
     ELSE StrsplitLoop(str, t.save, Append(fields, Deref(t.tok)), size)

\* the fields found; the function's return value is their number
openvpn_strsplit(str, size) == StrsplitLoop(str, 1, <<>>, size)

(***************************************************************************)
(* atoll and derive_t.                                                     *)
(***************************************************************************)
Digits == {"0", "1", "2", "3", "4", "5", "6", "7", "8", "9"}
DigitVal(c) ==
  CASE c = "0" -> 0 [] c = "1" -> 1 [] c = "2" -> 2 [] c = "3" -> 3
    [] c = "4" -> 4 [] c = "5" -> 5 [] c = "6" -> 6 [] c = "7" -> 7
    [] c = "8" -> 8 [] c = "9" -> 9
\* isspace
Spaces == {" ", "\t", "\n", "\r", "\f"}

RECURSIVE SkipSpaces(_, _)
SkipSpaces(str, p) ==
  IF p > Len(str) THEN p
  ELSE IF CharAt(str, p) \in Spaces THEN SkipSpaces(str, p + 1)
  ELSE p

RECURSIVE ParseDigits(_, _, _)
ParseDigits(str, p, acc) ==
  IF p > Len(str) THEN acc
  ELSE IF CharAt(str, p) \in Digits
       THEN ParseDigits(str, p + 1, 10 * acc + DigitVal(CharAt(str, p)))
  ELSE acc

\* leading white space, an optional sign, then the longest run of digits
atoll(str) ==
  LET b == SkipSpaces(str, 1)
  IN IF b > Len(str) THEN 0
     ELSE IF CharAt(str, b) = "-" THEN 0 - ParseDigits(str, b + 1, 0)
     ELSE IF CharAt(str, b) = "+" THEN ParseDigits(str, b + 1, 0)
     ELSE ParseDigits(str, b, 0)

DeriveModulus == 2 ^ DeriveBits
DeriveMax == 2 ^ (DeriveBits - 1) - 1
DeriveMin == 0 - 2 ^ (DeriveBits - 1)

\* the value a derive_t holds after an addition or subtraction whose
\* mathematical result is v
derive_t(v) == ((v - DeriveMin) % DeriveModulus) + DeriveMin

(***************************************************************************)
(* The stream: fgets.                                                      *)
(***************************************************************************)
RECURSIVE LineEnd(_, _, _)
\* the position of the last character fgets stores when it starts at p and
\* may store up to position last: the first "\n", else the end of the file
LineEnd(content, p, last) ==
  IF p >= Len(content) \/ p >= last THEN p
  ELSE IF CharAt(content, p) = "\n" THEN p
  ELSE LineEnd(content, p + 1, last)

\* fgets(buffer, size, fh) with the stream at position p: NULL at end of
\* file, else the line stored in the buffer
fgets(content, p, size) ==
  IF p > Len(content) THEN NULL
  ELSE Ptr(SubSeq(content, p, LineEnd(content, p, p + size - 2)))

(***************************************************************************)
(* The value lists handed to plugin_dispatch_values.                       *)
(***************************************************************************)
\* VALUE_LIST_INIT leaves an instance that is not copied as the empty string
numusers_submit(pinst, tinst, value) ==
  [plugin |-> "openvpn",
   plugin_instance |-> IF pinst # NULL THEN Deref(pinst) ELSE "",
   type |-> "users",
   type_instance |-> IF tinst # NULL THEN Deref(tinst) ELSE "",
   values |-> <<value>>]

iostats_submit(pinst, tinst, rx, tx) ==
  [plugin |-> "openvpn",
   plugin_instance |-> IF pinst # NULL THEN Deref(pinst) ELSE "",
   type |-> "if_octets",
   type_instance |-> IF tinst # NULL THEN Deref(tinst) ELSE "",
   values |-> <<rx, tx>>]

compression_submit(pinst, tinst, uncompressed, compressed) ==
  [plugin |-> "openvpn",
   plugin_instance |-> IF pinst # NULL THEN Deref(pinst) ELSE "",
   type |-> "compression",
   type_instance |-> IF tinst # NULL THEN Deref(tinst) ELSE "",
   values |-> <<uncompressed, compressed>>]

(***************************************************************************)
(* State.                                                                  *)
(***************************************************************************)
\* the instance names (st->name) a read callback can be registered under
Names == {"server.status", "client.status"}

VARIABLES
  new_naming_schema,        \* the four configuration flags
  collect_compression,
  collect_user_count,
  collect_individual_users,
  sources,                  \* names whose read callback is registered
  pc,                       \* per name: where its read cycle stands
  content,                  \* per name: the bytes of the file fopen opened
  pos,                      \* per name: position of the stream fh
  ferr,                     \* per name: error indicator of the stream fh
  counters,                 \* per name: the eight locals of single_read
  multi,                    \* per name: the locals of multi1_read/multi2_read
  dispatched,               \* per name: value lists dispatched in this cycle
  logged,                   \* per name: message logged in this cycle
  retval,                   \* per name: what openvpn_read returned
  instances,                \* the vpn_status_t of the registered callbacks
  last_config,              \* the last call of openvpn_config: key, value, return
  phase,                    \* "config", then "initialized" or "failed"
  cycle,                    \* per name: the number of its current read cycle
  previous                  \* per name: outcome of its cycle before this one

flags == <<new_naming_schema, collect_compression, collect_user_count,
           collect_individual_users>>
\* what configuration and initialization leave behind
registry == <<instances, last_config, phase>>
\* what the earlier read cycles of a callback leave behind
history == <<cycle, previous>>
vars == <<new_naming_schema, collect_compression, collect_user_count,
          collect_individual_users, sources, pc, content, pos, ferr,
          counters, multi, dispatched, logged, retval, instances, last_config,
          phase, cycle, previous>>

\* before openvpn_config has been called
NoConfig == [key |-> "", value |-> "", ret |-> 0]

\* the outcome of a read cycle: what it returned and dispatched, and whether
\* fopen or an fgets failed; NoOutcome before the first cycle has returned
NoOutcome == [retval |-> 0, dispatched |-> <<>>, io_error |-> FALSE]

\* a variant with link_rx and post_compress declared without initializer
SingleLocals_without_initializer ==
  [link_rx |-> 7, link_tx |-> 0, tun_rx |-> 0, tun_tx |-> 0,
   pre_compress |-> 0, post_compress |-> 3,
   pre_decompress |-> 0, post_decompress |-> 0]

\* derive_t link_rx = 0, ... (single_read)
SingleLocals ==
  [link_rx |-> 0, link_tx |-> 0, tun_rx |-> 0, tun_tx |-> 0,
   pre_compress |-> 0, post_compress |-> 0,
   pre_decompress |-> 0, post_decompress |-> 0]

\* sum_users = 0, found_header = false, idx_... = 0, columns = 0
MultiLocals ==
  [sum_users |-> 0, found_header |-> FALSE, idx_cname |-> 0,
   idx_bytes_recv |-> 0, idx_bytes_sent |-> 0, columns |-> 0]

\* a variant that forgets the user count
openvpn_init_two_toggles(individual_users, compression, user_count) ==
  IF ~individual_users /\ ~compression THEN -1 ELSE 0

\* openvpn_init: 0, or -1 when there is nothing left to collect
openvpn_init(individual_users, compression, user_count) ==
  IF ~individual_users /\ ~compression /\ ~user_count THEN -1 ELSE 0

(***************************************************************************)
(* openvpn_config and openvpn_init.                                        *)
(***************************************************************************)
UpperCase == "ABCDEFGHIJKLMNOPQRSTUVWXYZ"
LowerCase == "abcdefghijklmnopqrstuvwxyz"

\* the lower case letter of each upper case letter
LowerOf ==
  [c \in {CharAt(UpperCase, i) : i \in 1..Len(UpperCase)} |->
     CharAt(LowerCase, CHOOSE i \in 1..Len(UpperCase) : CharAt(UpperCase, i) = c)]

\* tolower of one character
tolower(c) == IF c \in DOMAIN LowerOf THEN LowerOf[c] ELSE c

RECURSIVE ToLower(_)
ToLower(str) ==
  IF str = "" THEN "" ELSE tolower(CharAt(str, 1)) \o ToLower(Tail(str))

strcasecmp(a, b) == IF ToLower(a) = ToLower(b) THEN 0 ELSE 1

\* IS_TRUE(s), IS_FALSE(s)
IS_TRUE(s) ==
  strcasecmp("true", s) = 0 \/ strcasecmp("yes", s) = 0 \/ strcasecmp("on", s) = 0
IS_FALSE(s) ==
  strcasecmp("false", s) = 0 \/ strcasecmp("no", s) = 0 \/ strcasecmp("off", s) = 0

RECURSIVE strrchr(_, _, _)
\* strrchr(str, c): the position of the last c at or before position p,
\* 0 for NULL
strrchr(str, c, p) ==
  IF p = 0 THEN 0
  ELSE IF CharAt(str, p) = c THEN p
  ELSE strrchr(str, c, p - 1)

\* a variant that registers the source under the whole path
StatusName_whole_path(status_file) == status_file

\* status_name: status_file itself, or what follows its last '/'
StatusName(status_file) ==
  LET filename == strrchr(status_file, "/", Len(status_file))
  IN IF filename = 0 THEN status_file
     ELSE SubSeq(status_file, filename + 1, Len(status_file))

EINVAL == 22

\* plugin_register_complex_read("openvpn", "openvpn/" name, ...): EINVAL
\* when a read callback of that name is registered already
plugin_register_complex_read(name) == IF name \in sources THEN EINVAL ELSE 0

\* the keys and values of the configuration directives
ConfigKeys ==
  {"StatusFile", "statusfile", "Compression", "CollectCompression",
   "ImprovedNamingSchema", "CollectUserCount", "CollectIndividualUsers",
   "Interval"}
StatusPaths ==
  {"/var/run/server.status", "/etc/openvpn/server.status", "client.status"}
BooleanValues == {"true", "False", "maybe"}

\* openvpn_config(key, value); out_of_memory: strdup or calloc returns NULL
openvpn_config(key, value, out_of_memory) ==
  /\ phase = "config"
  /\ IF strcasecmp("StatusFile", key) = 0
     THEN IF out_of_memory
          THEN /\ last_config' = [key |-> key, value |-> value, ret |-> 1]
               /\ UNCHANGED <<flags, sources, instances>>
          ELSE LET status_file == value
                   status_name == StatusName(status_file)
                   status == plugin_register_complex_read(status_name)
               IN IF status = EINVAL
                  THEN /\ last_config' = [key |-> key, value |-> value, ret |-> -1]
                       /\ UNCHANGED <<flags, sources, instances>>
                  ELSE /\ instances' = Append(instances,
                                              [file |-> status_file,
                                               name |-> status_name])
                       /\ sources' = sources \cup {status_name}
                       /\ last_config' = [key |-> key, value |-> value, ret |-> 0]
                       /\ UNCHANGED flags
     ELSE IF strcasecmp("CollectCompression", key) = 0
             \/ strcasecmp("Compression", key) = 0
     THEN /\ collect_compression' = ~IS_FALSE(value)
          /\ last_config' = [key |-> key, value |-> value, ret |-> 0]
          /\ UNCHANGED <<new_naming_schema, collect_user_count,
                         collect_individual_users, sources, instances>>
     ELSE IF strcasecmp("ImprovedNamingSchema", key) = 0
     THEN /\ new_naming_schema' = IS_TRUE(value)
          /\ last_config' = [key |-> key, value |-> value, ret |-> 0]
          /\ UNCHANGED <<collect_compression, collect_user_count,
                         collect_individual_users, sources, instances>>
     ELSE IF strcasecmp("CollectUserCount", key) = 0
     THEN /\ collect_user_count' = IS_TRUE(value)
          /\ last_config' = [key |-> key, value |-> value, ret |-> 0]
          /\ UNCHANGED <<new_naming_schema, collect_compression,
                         collect_individual_users, sources, instances>>
     ELSE IF strcasecmp("CollectIndividualUsers", key) = 0
     THEN /\ collect_individual_users' = ~IS_FALSE(value)
          /\ last_config' = [key |-> key, value |-> value, ret |-> 0]
          /\ UNCHANGED <<new_naming_schema, collect_compression,
                         collect_user_count, sources, instances>>
     ELSE /\ last_config' = [key |-> key, value |-> value, ret |-> -1]
          /\ UNCHANGED <<flags, sources, instances>>
  /\ UNCHANGED <<phase, history, pc, content, pos, ferr, counters, multi,
                 dispatched, logged, retval>>

\* the daemon calls openvpn_init once the configuration has been read
openvpn_init_call ==
  /\ phase = "config"
  /\ phase' = IF openvpn_init(collect_individual_users, collect_compression,
                              collect_user_count) = 0
              THEN "initialized" ELSE "failed"
  /\ UNCHANGED <<instances, last_config, history, flags, sources, pc, content,
                 pos, ferr, counters, multi, dispatched, logged, retval>>

(***************************************************************************)
(* single_read.                                                            *)
(***************************************************************************)
\* the loop body after fgets: the counters after one line
SingleLine(c, buffer) ==
  LET fields == openvpn_strsplit(buffer, SingleMaxFields)
      fields_num == Len(fields)
  IN IF fields_num # 2 THEN c
     ELSE IF strcmp(fields[1], "TUN/TAP read bytes") = 0
          THEN [c EXCEPT !.tun_tx = atoll(fields[2])]
     ELSE IF strcmp(fields[1], "TUN/TAP write bytes") = 0
          THEN [c EXCEPT !.tun_rx = atoll(fields[2])]
     ELSE IF strcmp(fields[1], "TCP/UDP read bytes") = 0
          THEN [c EXCEPT !.link_rx = atoll(fields[2])]
     ELSE IF strcmp(fields[1], "TCP/UDP write bytes") = 0
          THEN [c EXCEPT !.link_tx = atoll(fields[2])]
     ELSE IF strcmp(fields[1], "pre-compress bytes") = 0
          THEN [c EXCEPT !.pre_compress = atoll(fields[2])]
     ELSE IF strcmp(fields[1], "post-compress bytes") = 0
          THEN [c EXCEPT !.post_compress = atoll(fields[2])]
     ELSE IF strcmp(fields[1], "pre-decompress bytes") = 0
          THEN [c EXCEPT !.pre_decompress = atoll(fields[2])]
     ELSE IF strcmp(fields[1], "post-decompress bytes") = 0
          THEN [c EXCEPT !.post_decompress = atoll(fields[2])]
     ELSE c

\* a variant that subtracts the other tunnel counter
overhead_rx_other_tunnel(c) ==
  derive_t(derive_t(derive_t(c.link_rx - c.pre_decompress)
                    + c.post_decompress) - c.tun_tx)

\* a variant that clamps a negative intermediate to zero
overhead_rx_clamped(c) ==
  derive_t(derive_t((IF c.link_rx < c.pre_decompress THEN 0
                     ELSE derive_t(c.link_rx - c.pre_decompress))
                    + c.post_decompress) - c.tun_rx)

overhead_rx(c) ==
  derive_t(derive_t(derive_t(c.link_rx - c.pre_decompress)
                    + c.post_decompress) - c.tun_rx)

overhead_tx(c) ==
  derive_t(derive_t(derive_t(c.link_tx - c.post_compress)
                    + c.pre_compress) - c.tun_tx)

\* a variant that passes the compressed size first
SingleSubmit_compressed_first(name, c, compression) ==
  <<iostats_submit(Ptr(name), Ptr("traffic"), c.link_rx, c.link_tx),
    iostats_submit(Ptr(name), Ptr("overhead"), overhead_rx(c), overhead_tx(c))>>
  \o (IF compression
      THEN <<compression_submit(Ptr(name), Ptr("data_in"),
                                c.pre_decompress, c.post_decompress),
             compression_submit(Ptr(name), Ptr("data_out"),
                                c.post_compress, c.pre_compress)>>
      ELSE <<>>)

\* what single_read dispatches once its loop has ended
SingleSubmit(name, c, compression) ==
  <<iostats_submit(Ptr(name), Ptr("traffic"), c.link_rx, c.link_tx),
    iostats_submit(Ptr(name), Ptr("overhead"), overhead_rx(c), overhead_tx(c))>>
  \o (IF compression
      THEN <<compression_submit(Ptr(name), Ptr("data_in"),
                                c.post_decompress, c.pre_decompress),
             compression_submit(Ptr(name), Ptr("data_out"),
                                c.pre_compress, c.post_compress)>>
      ELSE <<>>)

\* one iteration of the loop that reads a line
single_read_line(s) ==
  /\ pc[s] = "single_read"
  /\ fgets(content[s], pos[s], BufferSize) # NULL
  /\ LET buffer == Deref(fgets(content[s], pos[s], BufferSize))
     IN /\ pos' = [pos EXCEPT ![s] = @ + Len(buffer)]
        /\ counters' = [counters EXCEPT ![s] = SingleLine(@, buffer)]
  /\ UNCHANGED <<registry, history, flags, sources, pc, content, ferr, multi, dispatched,
                 logged, retval>>

\* fgets returns NULL, at end of file or on a read error: the loop ends,
\* the samples are dispatched and openvpn_read closes the stream
single_read_return(s) ==
  /\ pc[s] = "single_read"
  /\ \E error \in BOOLEAN :
       /\ error \/ fgets(content[s], pos[s], BufferSize) = NULL
       /\ ferr' = [ferr EXCEPT ![s] = error]
       /\ retval' = [retval EXCEPT ![s] = 0]
  /\ dispatched' = [dispatched EXCEPT
                      ![s] = @ \o SingleSubmit(s, counters[s], collect_compression)]
  /\ pc' = [pc EXCEPT ![s] = "done"]
  /\ UNCHANGED <<registry, history, flags, sources, content, pos, counters, multi, logged>>

(***************************************************************************)
(* multi1_read.                                                            *)
(***************************************************************************)
\* a variant whose old naming schema passes the name as type instance
ClientSubmit_name_as_tinst(name, cname, rx, tx) ==
  IF new_naming_schema
  THEN iostats_submit(Ptr(name), Ptr(cname), rx, tx)
  ELSE iostats_submit(Ptr(cname), Ptr(name), rx, tx)

\* the value list dispatched for one client row
ClientSubmit(name, cname, rx, tx) ==
  IF new_naming_schema
  THEN iostats_submit(Ptr(name), Ptr(cname), rx, tx)
  ELSE iostats_submit(Ptr(cname), NULL, rx, tx)

\* a variant that wants a fifth field
RowTooShort_five(fields_num) == fields_num < 5

\* if (fields_num < 4) continue;
RowTooShort(fields_num) == fields_num < 4

\* the loop body after fgets: the locals after the line, what the line made
\* the function dispatch, and how the iteration leaves the loop body
Multi1Line(name, m, buffer) ==
  LET fields == openvpn_strsplit(buffer, Multi1MaxFields)
      fields_num == Len(fields)
  IN IF strcmp(buffer, "ROUTING TABLE\n") = 0
     THEN [m |-> m, out |-> <<>>, ctl |-> "break"]
     ELSE IF strcmp(buffer, V1HEADER) = 0
     THEN [m |-> [m EXCEPT !.found_header = TRUE], out |-> <<>>,
           ctl |-> "continue"]
     ELSE IF m.found_header = FALSE
     THEN [m |-> m, out |-> <<>>, ctl |-> "continue"]
     ELSE IF RowTooShort(fields_num)
     THEN [m |-> m, out |-> <<>>, ctl |-> "continue"]
     ELSE [m |-> IF collect_user_count
                 THEN [m EXCEPT !.sum_users = @ + 1] ELSE m,
           out |-> IF collect_individual_users
                   THEN <<ClientSubmit(name, fields[1], atoll(fields[3]),
                                       atoll(fields[4]))>>
                   ELSE <<>>,
           ctl |-> "continue"]

\* a variant that does not ask whether the header was found
Multi1Return_no_header_check(name, m, error) ==
  IF error THEN [ret |-> -1, out |-> <<>>, log |-> ""]
  ELSE [ret |-> 0,
        out |-> IF collect_user_count
                THEN <<numusers_submit(Ptr(name), Ptr(name), m.sum_users)>>
                ELSE <<>>,
        log |-> ""]

\* a variant that dispatches the users sample whatever collect_user_count
Multi1Return_users_always(name, m, error) ==
  IF error THEN [ret |-> -1, out |-> <<>>, log |-> ""]
  ELSE IF m.found_header = FALSE
  THEN [ret |-> -1, out |-> <<>>, log |-> "Unknown file format"]
  ELSE [ret |-> 0,
        out |-> <<numusers_submit(Ptr(name), Ptr(name), m.sum_users)>>,
        log |-> ""]

\* the code after the loop
Multi1Return(name, m, error) ==
  IF error THEN [ret |-> -1, out |-> <<>>, log |-> ""]
  ELSE IF m.found_header = FALSE
  THEN [ret |-> -1, out |-> <<>>, log |-> "Unknown file format"]
  ELSE [ret |-> 0,
        out |-> IF collect_user_count
                THEN <<numusers_submit(Ptr(name), Ptr(name), m.sum_users)>>
                ELSE <<>>,
        log |-> ""]

\* an iteration that reads a line and goes on to the next one
multi1_read_line(s) ==
  /\ pc[s] = "multi1_read"
  /\ fgets(content[s], pos[s], BufferSize) # NULL
  /\ LET buffer == Deref(fgets(content[s], pos[s], BufferSize))
         r == Multi1Line(s, multi[s], buffer)
     IN /\ r.ctl = "continue"
        /\ pos' = [pos EXCEPT ![s] = @ + Len(buffer)]
        /\ multi' = [multi EXCEPT ![s] = r.m]
        /\ dispatched' = [dispatched EXCEPT ![s] = @ \o r.out]
  /\ UNCHANGED <<registry, history, flags, sources, pc, content, ferr, counters, logged, retval>>

\* the iteration that reads "ROUTING TABLE": the loop ends and the function
\* returns
multi1_read_break(s) ==
  /\ pc[s] = "multi1_read"
  /\ fgets(content[s], pos[s], BufferSize) # NULL
  /\ LET buffer == Deref(fgets(content[s], pos[s], BufferSize))
         r == Multi1Line(s, multi[s], buffer)
         f == Multi1Return(s, r.m, FALSE)
     IN /\ r.ctl = "break"
        /\ pos' = [pos EXCEPT ![s] = @ + Len(buffer)]
        /\ multi' = [multi EXCEPT ![s] = r.m]
        /\ dispatched' = [dispatched EXCEPT ![s] = @ \o r.out \o f.out]
        /\ logged' = [logged EXCEPT ![s] = f.log]
        /\ retval' = [retval EXCEPT ![s] = f.ret]
  /\ pc' = [pc EXCEPT ![s] = "done"]
  /\ UNCHANGED <<registry, history, flags, sources, content, ferr, counters>>

\* fgets returns NULL, at end of file or on a read error
multi1_read_eof(s) ==
  /\ pc[s] = "multi1_read"
  /\ \E error \in BOOLEAN :
       /\ error \/ fgets(content[s], pos[s], BufferSize) = NULL
       /\ ferr' = [ferr EXCEPT ![s] = error]
       /\ LET f == Multi1Return(s, multi[s], error)
          IN /\ dispatched' = [dispatched EXCEPT ![s] = @ \o f.out]
             /\ logged' = [logged EXCEPT ![s] = f.log]
             /\ retval' = [retval EXCEPT ![s] = f.ret]
  /\ pc' = [pc EXCEPT ![s] = "done"]
  /\ UNCHANGED <<registry, history, flags, sources, content, pos, counters, multi>>

(***************************************************************************)
(* multi2_read.                                                            *)
(***************************************************************************)
RECURSIVE HeaderColumns(_, _, _)
\* for (int i = 2; i < fields_num; i++): i counts from 0 as in the code,
\* fields is indexed from 1
HeaderColumns(m, fields, i) ==
  IF ~(i < Len(fields)) THEN m
  ELSE IF strcmp(fields[i + 1], "Common Name") = 0
       THEN HeaderColumns([m EXCEPT !.idx_cname = i - 1], fields, i + 1)
  ELSE IF strcmp(fields[i + 1], "Bytes Received") = 0
       THEN HeaderColumns([m EXCEPT !.idx_bytes_recv = i - 1], fields, i + 1)
  ELSE IF strcmp(fields[i + 1], "Bytes Sent") = 0
       THEN HeaderColumns([m EXCEPT !.idx_bytes_sent = i - 1], fields, i + 1)
  ELSE HeaderColumns(m, fields, i + 1)

\* Data row has 1 field ("HEADER") less than header row
HeaderRowColumns(fields_num) == fields_num - 1

\* a variant that forgets "Bytes Sent"
HeaderMissingColumn_two(h) == h.idx_cname = 0 \/ h.idx_bytes_recv = 0

\* a variant that only rejects rows that are too short
FieldsMismatch_fewer(fields_num, columns) == fields_num < columns

\* if (idx_cname == 0 || idx_bytes_recv == 0 || idx_bytes_sent == 0) break;
HeaderMissingColumn(h) ==
  h.idx_cname = 0 \/ h.idx_bytes_recv = 0 \/ h.idx_bytes_sent = 0

\* if (fields_num != columns) ... return -1;
FieldsMismatch(fields_num, columns) == fields_num # columns

\* a variant that ends the section only at a row without fields
SectionFinished_no_fields(fields) == Len(fields) = 0

\* if (fields_num == 0 || strcmp(fields[0], "CLIENT_LIST") != 0) break;
SectionFinished(fields) ==
  Len(fields) = 0 \/ strcmp(fields[1], "CLIENT_LIST") # 0

\* the loop body after fgets; ctl "return" is the return -1 inside the loop
Multi2Line(name, m, buffer) ==
  LET fields == openvpn_strsplit(buffer, Multi2MaxFields)
      fields_num == Len(fields)
      h == HeaderColumns(m, fields, 2)
  IN IF m.found_header = FALSE
     THEN IF fields_num < 2
          THEN [m |-> m, out |-> <<>>, ctl |-> "continue"]
          ELSE IF strcmp(fields[1], "HEADER") # 0
          THEN [m |-> m, out |-> <<>>, ctl |-> "continue"]
          ELSE IF strcmp(fields[2], "CLIENT_LIST") # 0
          THEN [m |-> m, out |-> <<>>, ctl |-> "continue"]
          ELSE IF HeaderMissingColumn(h)
          THEN [m |-> h, out |-> <<>>, ctl |-> "break"]
          ELSE [m |-> [h EXCEPT !.columns = HeaderRowColumns(fields_num),
                                !.found_header = TRUE],
                out |-> <<>>, ctl |-> "continue"]
     ELSE IF SectionFinished(fields)
          THEN [m |-> m, out |-> <<>>, ctl |-> "break"]
          ELSE IF FieldsMismatch(fields_num, m.columns)
          THEN [m |-> m, out |-> <<>>, ctl |-> "return"]
          ELSE [m |-> IF collect_user_count
                      THEN [m EXCEPT !.sum_users = @ + 1] ELSE m,
                out |-> IF collect_individual_users
                        THEN <<ClientSubmit(name, fields[m.idx_cname + 1],
                                 atoll(fields[m.idx_bytes_recv + 1]),
                                 atoll(fields[m.idx_bytes_sent + 1]))>>
                        ELSE <<>>,
                ctl |-> "continue"]

\* a variant that looks at ferror(fh) only after the users sample
Multi2Return_users_first(name, m, error) ==
  IF m.found_header = FALSE
  THEN [ret |-> -1, out |-> <<>>, log |-> "Unknown file format"]
  ELSE [ret |-> IF error THEN -1 ELSE 0,
        out |-> IF collect_user_count
                THEN <<numusers_submit(Ptr(name), Ptr(name), m.sum_users)>>
                ELSE <<>>,
        log |-> ""]

\* the code after the loop
Multi2Return(name, m, error) ==
  IF error THEN [ret |-> -1, out |-> <<>>, log |-> ""]
  ELSE IF m.found_header = FALSE
  THEN [ret |-> -1, out |-> <<>>, log |-> "Unknown file format"]
  ELSE [ret |-> 0,
        out |-> IF collect_user_count
                THEN <<numusers_submit(Ptr(name), Ptr(name), m.sum_users)>>
                ELSE <<>>,
        log |-> ""]

\* an iteration that reads a line and goes on to the next one
multi2_read_line(s) ==
  /\ pc[s] = "multi2_read"
  /\ fgets(content[s], pos[s], BufferSize) # NULL
  /\ LET buffer == Deref(fgets(content[s], pos[s], BufferSize))
         r == Multi2Line(s, multi[s], buffer)
     IN /\ r.ctl = "continue"
        /\ pos' = [pos EXCEPT ![s] = @ + Len(buffer)]
        /\ multi' = [multi EXCEPT ![s] = r.m]
        /\ dispatched' = [dispatched EXCEPT ![s] = @ \o r.out]
  /\ UNCHANGED <<registry, history, flags, sources, pc, content, ferr, counters, logged, retval>>

\* an iteration that leaves the loop with break: a header row without the
\* three columns, or the first row after the client list
multi2_read_break(s) ==
  /\ pc[s] = "multi2_read"
  /\ fgets(content[s], pos[s], BufferSize) # NULL
  /\ LET buffer == Deref(fgets(content[s], pos[s], BufferSize))
         r == Multi2Line(s, multi[s], buffer)
         f == Multi2Return(s, r.m, FALSE)
     IN /\ r.ctl = "break"
        /\ pos' = [pos EXCEPT ![s] = @ + Len(buffer)]
        /\ multi' = [multi EXCEPT ![s] = r.m]
        /\ dispatched' = [dispatched EXCEPT ![s] = @ \o r.out \o f.out]
        /\ logged' = [logged EXCEPT ![s] = f.log]
        /\ retval' = [retval EXCEPT ![s] = f.ret]
  /\ pc' = [pc EXCEPT ![s] = "done"]
  /\ UNCHANGED <<registry, history, flags, sources, content, ferr, counters>>

\* an iteration that finds a client row of the wrong length: return -1
multi2_read_mismatch(s) ==
  /\ pc[s] = "multi2_read"
  /\ fgets(content[s], pos[s], BufferSize) # NULL
  /\ LET buffer == Deref(fgets(content[s], pos[s], BufferSize))
         r == Multi2Line(s, multi[s], buffer)
     IN /\ r.ctl = "return"
        /\ pos' = [pos EXCEPT ![s] = @ + Len(buffer)]
        /\ multi' = [multi EXCEPT ![s] = r.m]
        /\ dispatched' = [dispatched EXCEPT ![s] = @ \o r.out]
  /\ logged' = [logged EXCEPT ![s] = "Fields count mismatch"]
  /\ retval' = [retval EXCEPT ![s] = -1]
  /\ pc' = [pc EXCEPT ![s] = "done"]
  /\ UNCHANGED <<registry, history, flags, sources, content, ferr, counters>>

\* fgets returns NULL, at end of file or on a read error
multi2_read_eof(s) ==
  /\ pc[s] = "multi2_read"
  /\ \E error \in BOOLEAN :
       /\ error \/ fgets(content[s], pos[s], BufferSize) = NULL
       /\ ferr' = [ferr EXCEPT ![s] = error]
       /\ LET f == Multi2Return(s, multi[s], error)
          IN /\ dispatched' = [dispatched EXCEPT ![s] = @ \o f.out]
             /\ logged' = [logged EXCEPT ![s] = f.log]
             /\ retval' = [retval EXCEPT ![s] = f.ret]
  /\ pc' = [pc EXCEPT ![s] = "done"]
  /\ UNCHANGED <<registry, history, flags, sources, content, pos, counters, multi>>

(***************************************************************************)
(* openvpn_read.                                                           *)
(***************************************************************************)
\* a variant that wants the version 2 title to be the whole line
Detect_whole_line(buffer) ==
  IF strcmp(buffer, TITLE_SINGLE) = 0 THEN "single_read"
  ELSE IF strcmp(buffer, TITLE_V1) = 0 THEN "multi1_read"
  ELSE IF strcmp(buffer, TITLE_V2) = 0 THEN "multi2_read"
  ELSE ""

\* the parser the title line selects, "" when the format is unknown
Detect(buffer) ==
  IF strcmp(buffer, TITLE_SINGLE) = 0 THEN "single_read"
  ELSE IF strcmp(buffer, TITLE_V1) = 0 THEN "multi1_read"
  ELSE IF strncmp(buffer, TITLE_V2, strlen(TITLE_V2)) = 0 THEN "multi2_read"
  ELSE ""

\* fopen returns NULL
openvpn_read_fopen_fails(s) ==
  /\ s \in sources
  /\ pc[s] = "idle"
  /\ logged' = [logged EXCEPT ![s] = "fopen failed"]
  /\ retval' = [retval EXCEPT ![s] = -1]
  /\ pc' = [pc EXCEPT ![s] = "done"]
  /\ UNCHANGED <<registry, history, flags, sources, content, pos, ferr, counters, multi,
                 dispatched>>

\* fopen succeeds but fgets gets no first line, at end of file or on a read
\* error
openvpn_read_no_data(s) ==
  /\ s \in sources
  /\ pc[s] = "idle"
  /\ \E error \in BOOLEAN :
       /\ error \/ fgets(content[s], 1, BufferSize) = NULL
       /\ ferr' = [ferr EXCEPT ![s] = error]
  /\ logged' = [logged EXCEPT ![s] = "failed to get data"]
  /\ retval' = [retval EXCEPT ![s] = -1]
  /\ pc' = [pc EXCEPT ![s] = "done"]
  /\ UNCHANGED <<registry, history, flags, sources, content, pos, counters, multi, dispatched>>

\* a variant whose parsers keep their locals in static storage, one copy for
\* every callback
openvpn_read_detect_shared_locals(s) ==
  /\ s \in sources
  /\ pc[s] = "idle"
  /\ fgets(content[s], 1, BufferSize) # NULL
  /\ LET buffer == Deref(fgets(content[s], 1, BufferSize))
     IN /\ Detect(buffer) # ""
        /\ pos' = [pos EXCEPT ![s] = 1 + Len(buffer)]
        /\ pc' = [pc EXCEPT ![s] = Detect(buffer)]
  /\ counters' = [n \in Names |-> SingleLocals]
  /\ multi' = [n \in Names |-> MultiLocals]
  /\ UNCHANGED <<registry, history, flags, sources, content, ferr, dispatched, logged, retval>>

\* a variant whose parsers keep their locals in static storage, initialized
\* once
openvpn_read_detect_static_locals(s) ==
  /\ s \in sources
  /\ pc[s] = "idle"
  /\ fgets(content[s], 1, BufferSize) # NULL
  /\ LET buffer == Deref(fgets(content[s], 1, BufferSize))
     IN /\ Detect(buffer) # ""
        /\ pos' = [pos EXCEPT ![s] = 1 + Len(buffer)]
        /\ pc' = [pc EXCEPT ![s] = Detect(buffer)]
  /\ UNCHANGED <<registry, history, flags, sources, content, ferr, counters,
                 multi, dispatched, logged, retval>>

\* the first line is read and a parser is entered with its locals
\* initialized
openvpn_read_detect(s) ==
  /\ s \in sources
  /\ pc[s] = "idle"
  /\ fgets(content[s], 1, BufferSize) # NULL
  /\ LET buffer == Deref(fgets(content[s], 1, BufferSize))
     IN /\ Detect(buffer) # ""
        /\ pos' = [pos EXCEPT ![s] = 1 + Len(buffer)]
        /\ pc' = [pc EXCEPT ![s] = Detect(buffer)]
  /\ counters' = [counters EXCEPT ![s] = SingleLocals]
  /\ multi' = [multi EXCEPT ![s] = MultiLocals]
  /\ UNCHANGED <<registry, history, flags, sources, content, ferr, dispatched, logged, retval>>

\* the first line is none of the three titles
openvpn_read_unknown(s) ==
  /\ s \in sources
  /\ pc[s] = "idle"
  /\ fgets(content[s], 1, BufferSize) # NULL
  /\ LET buffer == Deref(fgets(content[s], 1, BufferSize))
     IN /\ Detect(buffer) = ""
        /\ pos' = [pos EXCEPT ![s] = 1 + Len(buffer)]
  /\ logged' = [logged EXCEPT ![s] = "Unknown file format"]
  /\ retval' = [retval EXCEPT ![s] = -1]
  /\ pc' = [pc EXCEPT ![s] = "done"]
  /\ UNCHANGED <<registry, history, flags, sources, content, ferr, counters, multi, dispatched>>

\* the callback is called again once it has returned: its stream was
\* closed, fopen gives a new one at the start of the file; the locals of
\* the call that returned are what it left on the stack
openvpn_read_again(s) ==
  /\ s \in sources
  /\ pc[s] = "done"
  /\ cycle[s] < MaxCycles
  /\ cycle' = [cycle EXCEPT ![s] = @ + 1]
  /\ previous' = [previous EXCEPT
                    ![s] = [retval |-> retval[s], dispatched |-> dispatched[s],
                            io_error |-> ferr[s] \/ logged[s] = "fopen failed"]]
  /\ pc' = [pc EXCEPT ![s] = "idle"]
  /\ pos' = [pos EXCEPT ![s] = 1]
  /\ ferr' = [ferr EXCEPT ![s] = FALSE]
  /\ dispatched' = [dispatched EXCEPT ![s] = <<>>]
  /\ logged' = [logged EXCEPT ![s] = ""]
  /\ UNCHANGED <<registry, flags, sources, content, counters, multi, retval>>

(***************************************************************************)
(* The status files of the model.                                          *)
(***************************************************************************)
RECURSIVE Concat(_)
Concat(lines) == IF lines = <<>> THEN "" ELSE Head(lines) \o Concat(Tail(lines))

SeqsUpTo(S, n) == UNION {[1..k -> S] : k \in 0..n}

\* lines of a single-endpoint status file
SingleLines ==
  {"Updated,Thu Jun 18 08:12:15 2009\n",
   "TCP/UDP read bytes,1000\n",
   "TUN/TAP write bytes,900\n",
   "pre-decompress bytes,300\n",
   "TCP/UDP read bytes,1000,extra\n"}

\* lines of a version 1 status file: the header, a row of four fields, a
\* line of two fields, the end of the client list
V1Lines ==
  {V1HEADER,
   "clientA,1.2.3.4,500,700\n",
   "Updated,Thu Jun 18 04:23:03 2009\n",
   "ROUTING TABLE\n"}

\* lines of a version 2 status file: a header row of seven fields, a header
\* row without "Bytes Sent", client rows of six, five and seven fields, the
\* footer
V2Lines ==
  {"HEADER,CLIENT_LIST,Common Name,Real Address,Bytes Received,Bytes Sent,Connected Since\n",
   "HEADER,CLIENT_LIST,Common Name,Real Address,Bytes Received,Connected Since\n",
   "CLIENT_LIST,clientB,5.6.7.8,300,400,Thu Jun 18 04:23:03 2009\n",
   "CLIENT_LIST,clientC,9.9.9.9,10,20\n",
   "CLIENT_LIST,clientD,9.9.9.9,10.8.0.2,30,40,Thu Jun 18 04:23:03 2009\n",
   "END\n"}

TitleV2 == "TITLE,OpenVPN 2.4.4 x86_64-pc-linux-gnu\n"

SingleFiles == {TITLE_SINGLE \o Concat(l) : l \in SeqsUpTo(SingleLines, MaxLines)}
V1Files == {TITLE_V1 \o Concat(l) : l \in SeqsUpTo(V1Lines, MaxLines)}
V2Files == {TitleV2 \o Concat(l) : l \in SeqsUpTo(V2Lines, MaxLines)}

\* the four lines of a single-endpoint file without compression
ScenarioA(lr, lw, tr, tw) ==
  TITLE_SINGLE
  \o "TCP/UDP read bytes," \o ToString(lr) \o "\n"
  \o "TCP/UDP write bytes," \o ToString(lw) \o "\n"
  \o "TUN/TAP read bytes," \o ToString(tr) \o "\n"
  \o "TUN/TAP write bytes," \o ToString(tw) \o "\n"

ScenarioAValues == {900, 1500}
ScenarioAFiles ==
  {ScenarioA(lr, lw, tr, tw) : lr \in ScenarioAValues, lw \in ScenarioAValues,
                               tr \in ScenarioAValues, tw \in ScenarioAValues}
  \cup {ScenarioA(1000, 2000, 1500, 900)}

\* a single-endpoint file as OpenVPN prints it, the eight counters given by
\* c
Statistics(c) ==
  TITLE_SINGLE
  \o "Updated,Thu Jun 18 08:12:15 2009\n"
  \o "TUN/TAP read bytes," \o ToString(c.tun_tx) \o "\n"
  \o "TUN/TAP write bytes," \o ToString(c.tun_rx) \o "\n"
  \o "TCP/UDP read bytes," \o ToString(c.link_rx) \o "\n"
  \o "TCP/UDP write bytes," \o ToString(c.link_tx) \o "\n"
  \o "Auth read bytes,0\n"
  \o "pre-compress bytes," \o ToString(c.pre_compress) \o "\n"
  \o "post-compress bytes," \o ToString(c.post_compress) \o "\n"
  \o "pre-decompress bytes," \o ToString(c.pre_decompress) \o "\n"
  \o "post-decompress bytes," \o ToString(c.post_decompress) \o "\n"
  \o "END\n"

\* counter values: a few bytes, the largest a derive_t holds
CounterValues == {5, DeriveMax}
StatisticsCounters ==
  {[link_rx |-> a, pre_decompress |-> b, post_decompress |-> c, tun_rx |-> d,
    link_tx |-> b, post_compress |-> c, pre_compress |-> d, tun_tx |-> a] :
     a \in CounterValues, b \in CounterValues, c \in CounterValues,
     d \in CounterValues}
StatisticsFiles == {Statistics(c) : c \in StatisticsCounters}

\* a version 2 file of one header row and one client row: the header names
\* the columns cols in that order, the row holds for each column its value
\* in vals
ColumnNames == {"Common Name", "Real Address", "Bytes Received", "Bytes Sent"}
ColumnOrders ==
  {o \in [1..Cardinality(ColumnNames) -> ColumnNames] :
     \A i, j \in DOMAIN o : o[i] = o[j] => i = j}
RealAddresses == {"5.6.7.8", ""}
ClientValues(real_address) ==
  [n \in ColumnNames |->
     CASE n = "Common Name" -> "clientB"
       [] n = "Real Address" -> real_address
       [] n = "Bytes Received" -> "300"
       [] n = "Bytes Sent" -> "400"]

RECURSIVE Row(_, _)
Row(first, rest) ==
  IF rest = <<>> THEN first \o "\n"
  ELSE Row(first \o "," \o Head(rest), Tail(rest))

ColumnsFile(cols, vals) ==
  TitleV2
  \o Row("HEADER,CLIENT_LIST", cols)
  \o Row("CLIENT_LIST", [i \in DOMAIN cols |-> vals[cols[i]]])

ColumnsFiles ==
  {ColumnsFile(o, ClientValues(a)) : o \in ColumnOrders, a \in RealAddresses}

\* longer files: a version 1 file with a row after "ROUTING TABLE"; version
\* 2 files with a row of the wrong length after a good row, with a header
\* row lacking a column before a complete one, with a row after the footer,
\* with a last line of delimiters only, with tabs as delimiters
LongerFiles ==
  {TITLE_V1 \o V1HEADER \o "clientA,1.2.3.4,500,700\n" \o "ROUTING TABLE\n",
   TITLE_V1 \o "Updated,Thu Jun 18 04:23:03 2009\n" \o V1HEADER
     \o "clientA,1.2.3.4,500,700\n" \o "ROUTING TABLE\n"
     \o "10.8.0.2,clientA,1.2.3.4,Thu Jun 18 04:23:03 2009\n",
   TitleV2
     \o "HEADER,CLIENT_LIST,Common Name,Real Address,Bytes Received,Bytes Sent,Connected Since\n"
     \o "CLIENT_LIST,clientB,5.6.7.8,300,400,Thu Jun 18 04:23:03 2009\n"
     \o "CLIENT_LIST,clientD,9.9.9.9,10.8.0.2,30,40,Thu Jun 18 04:23:03 2009\n"
     \o "CLIENT_LIST,clientB,5.6.7.8,300,400,Thu Jun 18 04:23:03 2009\n",
   TitleV2
     \o "HEADER,CLIENT_LIST,Common Name,Real Address,Bytes Received,Bytes Sent,Connected Since\n"
     \o "CLIENT_LIST,clientB,5.6.7.8,300,400,Thu Jun 18 04:23:03 2009\n"
     \o "CLIENT_LIST,clientC,9.9.9.9,10,20\n"
     \o "END\n",
   TitleV2
     \o "HEADER,CLIENT_LIST,Common Name,Real Address,Bytes Received,Connected Since\n"
     \o "HEADER,CLIENT_LIST,Common Name,Real Address,Bytes Received,Bytes Sent,Connected Since\n"
     \o "CLIENT_LIST,clientB,5.6.7.8,300,400,Thu Jun 18 04:23:03 2009\n",
   TitleV2
     \o "HEADER,CLIENT_LIST,Common Name,Real Address,Bytes Received,Bytes Sent,Connected Since\n"
     \o "CLIENT_LIST,clientB,5.6.7.8,300,400,Thu Jun 18 04:23:03 2009\n"
     \o "END\n"
     \o "CLIENT_LIST,clientF,5.6.7.9,50,60,Thu Jun 18 04:23:03 2009\n",
   TitleV2
     \o "HEADER,CLIENT_LIST,Common Name,Real Address,Bytes Received,Bytes Sent,Connected Since\n"
     \o "CLIENT_LIST,clientB,5.6.7.8,300,400,Thu Jun 18 04:23:03 2009\n"
     \o ",\t",
   "TITLE\tOpenVPN 2.4.4 x86_64-pc-linux-gnu\n"
     \o "TIME\tThu Jun 18 04:23:03 2009\t1245298983\n"
     \o "HEADER\tCLIENT_LIST\tCommon Name\tBytes Sent\tBytes Received\tUsername\n"
     \o "CLIENT_LIST\tclientE\t40\t30\tUNDEF\n"
     \o "HEADER\tROUTING_TABLE\tVirtual Address\tCommon Name\n"}

\* lines after which a counter set by an earlier line is looked at: a key
\* followed by a delimiter and no value, a key alone, an empty line, a key
\* with more fields than single_read has room for, empty fields around a
\* key and its value, another key, a line without key
FilterLines ==
  {"TCP/UDP read bytes,\n",
   "TCP/UDP read bytes\n",
   "\n",
   "TCP/UDP read bytes,2000,extra,more,yet more\n",
   ",,TCP/UDP read bytes,,2000\n",
   "TUN/TAP read bytes,5\n",
   "Auth read bytes,7\n"}

\* single-endpoint files whose second line sets link_rx and whose third
\* line is one of the lines above
FilterFiles ==
  {TITLE_SINGLE \o "TCP/UDP read bytes,1000\n" \o l : l \in FilterLines}

\* files that are no status file, or no file with a line
OtherFiles == {"", "OpenVPN STATISTICS", "OpenVPN 2.4.4\nEND\n"}

StatusFiles ==
  SingleFiles \cup V1Files \cup V2Files \cup ScenarioAFiles
  \cup StatisticsFiles \cup ColumnsFiles \cup LongerFiles \cup FilterFiles
  \cup OtherFiles

(***************************************************************************)
(* Specification: one registered source, configured so that openvpn_init   *)
(* succeeded, whose status file holds any of the files above.              *)
(***************************************************************************)
Init ==
  /\ new_naming_schema \in BOOLEAN
  /\ collect_compression \in BOOLEAN
  /\ collect_user_count \in BOOLEAN
  /\ collect_individual_users \in BOOLEAN
  /\ openvpn_init(collect_individual_users, collect_compression,
                  collect_user_count) = 0
  /\ sources = {"server.status"}
  /\ pc = [n \in Names |-> "idle"]
  /\ \E f \in StatusFiles :
       content = [n \in Names |-> IF n \in sources THEN f ELSE ""]
  /\ pos = [n \in Names |-> 1]
  /\ ferr = [n \in Names |-> FALSE]
  /\ counters = [n \in Names |-> SingleLocals]
  /\ multi = [n \in Names |-> MultiLocals]
  /\ dispatched = [n \in Names |-> <<>>]
  /\ logged = [n \in Names |-> ""]
  /\ retval = [n \in Names |-> 0]
  /\ instances = <<[file |-> "/var/run/server.status", name |-> "server.status"]>>
  /\ last_config = NoConfig
  /\ phase = "initialized"
  /\ cycle = [n \in Names |-> 1]
  /\ previous = [n \in Names |-> NoOutcome]

Next ==
  \E s \in Names :
    \/ openvpn_read_fopen_fails(s)
    \/ openvpn_read_no_data(s)
    \/ openvpn_read_detect(s)
    \/ openvpn_read_unknown(s)
    \/ single_read_line(s)
    \/ single_read_return(s)
    \/ multi1_read_line(s)
    \/ multi1_read_break(s)
    \/ multi1_read_eof(s)
    \/ multi2_read_line(s)
    \/ multi2_read_break(s)
    \/ multi2_read_mismatch(s)
    \/ multi2_read_eof(s)

Spec == Init /\ [][Next]_vars

(***************************************************************************)
(* Specification: two registered sources whose read cycles the scheduler   *)
(* runs concurrently, each on a status file of its own.                    *)
(***************************************************************************)
\* a file of each format, a version 2 file with a row that is too short,
\* a file that is no status file
TwoFiles ==
  {TITLE_SINGLE \o "TCP/UDP read bytes,1000\n",
   TITLE_V1 \o V1HEADER \o "clientA,1.2.3.4,500,700\n" \o "ROUTING TABLE\n",
   TitleV2
     \o "HEADER,CLIENT_LIST,Common Name,Real Address,Bytes Received,Bytes Sent,Connected Since\n"
     \o "CLIENT_LIST,clientB,5.6.7.8,300,400,Thu Jun 18 04:23:03 2009\n"
     \o "END\n",
   TitleV2
     \o "HEADER,CLIENT_LIST,Common Name,Real Address,Bytes Received,Bytes Sent,Connected Since\n"
     \o "CLIENT_LIST,clientC,9.9.9.9,10,20\n",
   "OpenVPN 2.4.4\nEND\n"}

InitTwo ==
  /\ new_naming_schema \in BOOLEAN
  /\ collect_compression \in BOOLEAN
  /\ collect_user_count \in BOOLEAN
  /\ collect_individual_users \in BOOLEAN
  /\ openvpn_init(collect_individual_users, collect_compression,
                  collect_user_count) = 0
  /\ sources = Names
  /\ pc = [n \in Names |-> "idle"]
  /\ content \in [Names -> TwoFiles]
  /\ pos = [n \in Names |-> 1]
  /\ ferr = [n \in Names |-> FALSE]
  /\ counters = [n \in Names |-> SingleLocals]
  /\ multi = [n \in Names |-> MultiLocals]
  /\ dispatched = [n \in Names |-> <<>>]
  /\ logged = [n \in Names |-> ""]
  /\ retval = [n \in Names |-> 0]
  /\ instances = <<[file |-> "/var/run/server.status", name |-> "server.status"],
                   [file |-> "/var/run/client.status", name |-> "client.status"]>>
  /\ last_config = NoConfig
  /\ phase = "initialized"
  /\ cycle = [n \in Names |-> 1]
  /\ previous = [n \in Names |-> NoOutcome]

SpecTwo == InitTwo /\ [][Next]_vars

(***************************************************************************)
(* Specification: one registered source whose callback is called again     *)
(* and again on a status file that is not rewritten in between.            *)
(***************************************************************************)
CycleFiles ==
  TwoFiles
  \cup {"",
        Statistics([link_rx |-> 5, link_tx |-> 6, tun_rx |-> 1, tun_tx |-> 2,
                    pre_compress |-> 3, post_compress |-> 4,
                    pre_decompress |-> 7, post_decompress |-> 8])}

InitCycles ==
  /\ new_naming_schema \in BOOLEAN
  /\ collect_compression \in BOOLEAN
  /\ collect_user_count \in BOOLEAN
  /\ collect_individual_users \in BOOLEAN
  /\ openvpn_init(collect_individual_users, collect_compression,
                  collect_user_count) = 0
  /\ sources = {"server.status"}
  /\ pc = [n \in Names |-> "idle"]
  /\ \E f \in CycleFiles :
       content = [n \in Names |-> IF n \in sources THEN f ELSE ""]
  /\ pos = [n \in Names |-> 1]
  /\ ferr = [n \in Names |-> FALSE]
  /\ counters = [n \in Names |-> SingleLocals]
  /\ multi = [n \in Names |-> MultiLocals]
  /\ dispatched = [n \in Names |-> <<>>]
  /\ logged = [n \in Names |-> ""]
  /\ retval = [n \in Names |-> 0]
  /\ instances = <<[file |-> "/var/run/server.status", name |-> "server.status"]>>
  /\ last_config = NoConfig
  /\ phase = "initialized"
  /\ cycle = [n \in Names |-> 1]
  /\ previous = [n \in Names |-> NoOutcome]

NextCycles ==
  \/ Next
  \/ \E s \in Names : openvpn_read_again(s)

SpecCycles == InitCycles /\ [][NextCycles]_vars

(***************************************************************************)
(* Specification: the plugin from its load, the flags at their             *)
(* initializers, through any configuration directives to openvpn_init.     *)
(***************************************************************************)
InitConfig ==
  /\ new_naming_schema = FALSE
  /\ collect_compression = TRUE
  /\ collect_user_count = FALSE
  /\ collect_individual_users = TRUE
  /\ sources = {}
  /\ pc = [n \in Names |-> "idle"]
  /\ content = [n \in Names |-> ""]
  /\ pos = [n \in Names |-> 1]
  /\ ferr = [n \in Names |-> FALSE]
  /\ counters = [n \in Names |-> SingleLocals]
  /\ multi = [n \in Names |-> MultiLocals]
  /\ dispatched = [n \in Names |-> <<>>]
  /\ logged = [n \in Names |-> ""]
  /\ retval = [n \in Names |-> 0]
  /\ instances = <<>>
  /\ last_config = NoConfig
  /\ phase = "config"
  /\ cycle = [n \in Names |-> 1]
  /\ previous = [n \in Names |-> NoOutcome]

NextConfig ==
  \/ \E key \in ConfigKeys :
       \E value \in (IF strcasecmp("StatusFile", key) = 0
                      THEN StatusPaths ELSE BooleanValues) :
         \E out_of_memory \in BOOLEAN :
           openvpn_config(key, value, out_of_memory)
  \/ openvpn_init_call

SpecConfig == InitConfig /\ [][NextConfig]_vars

TypeOK ==
  /\ sources \subseteq Names
  /\ \A n \in Names :
       /\ pc[n] \in {"idle", "single_read", "multi1_read", "multi2_read", "done"}
       /\ retval[n] \in {0, -1}
       /\ pos[n] \in 1..(Len(content[n]) + 1)

(***************************************************************************)
(* Vocabulary of the properties.                                           *)
(***************************************************************************)
RECURSIVE NewlineFrom(_, _)
\* the position of the first "\n" at or after p, else the last position
NewlineFrom(str, p) ==
  IF p >= Len(str) THEN Len(str)
  ELSE IF CharAt(str, p) = "\n" THEN p
  ELSE NewlineFrom(str, p + 1)

RECURSIVE SplitLines(_, _)
SplitLines(str, p) ==
  IF p > Len(str) THEN <<>>
  ELSE LET e == NewlineFrom(str, p)
       IN <<SubSeq(str, p, e)>> \o SplitLines(str, e + 1)

\* the lines of a file, each with its line terminator
FileLines(str) == SplitLines(str, 1)
\* the lines after the title line
BodyLines(str) == IF FileLines(str) = <<>> THEN <<>> ELSE Tail(FileLines(str))

\* the format of a file, by its title line
Format(str) ==
  IF str = "" THEN "" ELSE Detect(SubSeq(str, 1, NewlineFrom(str, 1)))

\* the read cycle of s has returned
Returned(s) == s \in sources /\ pc[s] = "done"
\* fopen succeeded and no fgets failed with a read error
NoIOError(s) == ~ferr[s] /\ logged[s] # "fopen failed"
Failed(s) == Returned(s) /\ retval[s] = -1
Succeeded(s) == Returned(s) /\ retval[s] = 0

IsTraffic(vl) == vl.type = "if_octets"
IsUsers(vl) == vl.type = "users"
Traffic(s) == SelectSeq(dispatched[s], IsTraffic)

\* the per-client traffic sample of the naming schema in force
ClientSample(name, cname, rx, tx) ==
  [plugin |-> "openvpn", type |-> "if_octets", values |-> <<rx, tx>>,
   plugin_instance |-> IF new_naming_schema THEN name ELSE cname,
   type_instance |-> IF new_naming_schema THEN cname ELSE ""]

\* a sample of the single-endpoint parser
SingleSample(name, type, tinst, a, b) ==
  [plugin |-> "openvpn", type |-> type, values |-> <<a, b>>,
   plugin_instance |-> name, type_instance |-> tinst]

(***************************************************************************)
(* C1.  Scenario C: a version 2 file whose header row ends with the        *)
(* column "Bytes Sent", followed by the row                                *)
(* "CLIENT_LIST,clientB,5.6.7.8,300,400".  With individual users           *)
(* collected, the read cycle succeeds and dispatches one traffic sample    *)
(* for clientB with rx = 300 and tx = 400.                                 *)
(***************************************************************************)
ScenarioC ==
  TitleV2
  \o "HEADER,CLIENT_LIST,Common Name,Real Address,Bytes Received,Bytes Sent\n"
  \o "CLIENT_LIST,clientB,5.6.7.8,300,400\n"

C1_ScenarioC ==
  \A s \in sources :
    (Returned(s) /\ NoIOError(s) /\ content[s] = ScenarioC
       /\ collect_individual_users)
    => /\ retval[s] = 0
       /\ Traffic(s) = <<ClientSample(s, "clientB", 300, 400)>>

(***************************************************************************)
(* C2.  Scenario A: a single-endpoint file of the four lines               *)
(* "TCP/UDP read bytes,Lr", "TCP/UDP write bytes,Lw",                      *)
(* "TUN/TAP read bytes,Tr", "TUN/TAP write bytes,Tw".  The cycle           *)
(* dispatches traffic (Lr, Lw) and then overhead; as claimed, overhead is  *)
(* (Lr - Tr, Lw - Tw); as the code computes it, overhead is                *)
(* (Lr - Tw, Lw - Tr), (100, 500) for 1000, 2000, 1500, 900.               *)
(***************************************************************************)
ScenarioAInputs == ScenarioAValues \cup {1000}

\* the claim as stated: TUN/TAP read bytes is subtracted from rx
C2_ScenarioA_Stated ==
  \A s \in sources : \A lr, lw, tr, tw \in ScenarioAInputs :
    (Returned(s) /\ NoIOError(s) /\ content[s] = ScenarioA(lr, lw, tr, tw))
    => /\ Len(dispatched[s]) >= 2
       /\ dispatched[s][1] = SingleSample(s, "if_octets", "traffic", lr, lw)
       /\ dispatched[s][2] = SingleSample(s, "if_octets", "overhead",
                                          derive_t(lr - tr), derive_t(lw - tw))

\* the claim as amended: TUN/TAP write bytes is subtracted from rx
C2_ScenarioA ==
  \A s \in sources : \A lr, lw, tr, tw \in ScenarioAInputs :
    (Returned(s) /\ NoIOError(s) /\ content[s] = ScenarioA(lr, lw, tr, tw))
    => /\ retval[s] = 0
       /\ Len(dispatched[s]) >= 2
       /\ dispatched[s][1] = SingleSample(s, "if_octets", "traffic", lr, lw)
       /\ dispatched[s][2] = SingleSample(s, "if_octets", "overhead",
                                          derive_t(lr - tw), derive_t(lw - tr))
       /\ (<<lr, lw, tr, tw>> = <<1000, 2000, 1500, 900>>
           => dispatched[s][2].values = <<100, 500>>)

C2_Witness ==
  \E s \in sources :
    /\ Returned(s) /\ NoIOError(s)
    /\ content[s] = ScenarioA(1000, 2000, 1500, 900)
    /\ Len(dispatched[s]) >= 2

(***************************************************************************)
(* C3.  In single-endpoint mode a read error on the stream makes the       *)
(* cycle return failure.                                                   *)
(***************************************************************************)
C3_SingleReadError ==
  \A s \in sources :
    (Returned(s) /\ Format(content[s]) = "single_read" /\ ferr[s])
    => retval[s] = -1

(***************************************************************************)
(* C4.  As claimed: a read cycle that returns failure has dispatched no    *)
(* sample.  As amended: a read cycle that returns failure has dispatched   *)
(* no users sample and no single-endpoint sample; all it has dispatched    *)
(* are the traffic samples of the client rows it accepted before a field   *)
(* count mismatch or a read error, and it has dispatched nothing when it   *)
(* fails for any other reason.                                             *)
(***************************************************************************)
C4_FailureIsAtomic ==
  \A s \in sources : Failed(s) => dispatched[s] = <<>>

C4_FailureKeepsClientRows ==
  \A s \in sources :
    Failed(s)
    => /\ \A i \in DOMAIN dispatched[s] : IsTraffic(dispatched[s][i])
       /\ dispatched[s] # <<>>
          => /\ Format(content[s]) \in {"multi1_read", "multi2_read"}
             /\ multi[s].found_header
             /\ collect_individual_users
             /\ ferr[s] \/ logged[s] = "Fields count mismatch"

C4_Witness ==
  \E s \in sources : Failed(s) /\ dispatched[s] # <<>> /\ ferr[s]

(***************************************************************************)
(* C5.  Round trip of version 2: whatever the positions at which the       *)
(* header row declares "Common Name", "Bytes Received" and "Bytes Sent"    *)
(* among unknown columns, and whatever the value of an unknown column in   *)
(* the client row (the empty string included), the sample dispatched for   *)
(* the row carries the row's values of those three columns.                *)
(***************************************************************************)
C5_RoundTrip ==
  \A s \in sources : \A o \in ColumnOrders : \A a \in RealAddresses :
    (Returned(s) /\ NoIOError(s) /\ collect_individual_users
       /\ content[s] = ColumnsFile(o, ClientValues(a)))
    => Traffic(s) = <<ClientSample(s, "clientB", 300, 400)>>

(***************************************************************************)
(* Version 2 files, line by line.                                          *)
(***************************************************************************)
Fields2(line) == openvpn_strsplit(line, Multi2MaxFields)

\* fields of a row with field[0] = "HEADER" and field[1] = "CLIENT_LIST"
HeaderFields(f) == Len(f) >= 2 /\ f[1] = "HEADER" /\ f[2] = "CLIENT_LIST"

\* a column is declared by a field of index >= 2 of the header row
Declares(f, column) == \E i \in 3..Len(f) : f[i] = column

CompleteHeaderFields(f) ==
  /\ HeaderFields(f)
  /\ Declares(f, "Common Name")
  /\ Declares(f, "Bytes Received")
  /\ Declares(f, "Bytes Sent")

IsHeaderRow(line) == HeaderFields(Fields2(line))
IsCompleteHeaderRow(line) == CompleteHeaderFields(Fields2(line))

\* the indexes, among the lines after the title, of the header rows
HeaderRows(lines) == {i \in DOMAIN lines : IsHeaderRow(lines[i])}

\* the least member of a non-empty set of indexes
Least(S) == CHOOSE i \in S : \A j \in S : i <= j

RECURSIVE TotalLen(_)
TotalLen(lines) == IF lines = <<>> THEN 0 ELSE Len(Head(lines)) + TotalLen(Tail(lines))

\* the position of the stream once the lines after the title up to line i
\* have been read
PosAfter(str, i) == 1 + TotalLen(SubSeq(FileLines(str), 1, i + 1))

\* the line the next fgets of s reads
LineAtPos(s) == SubSeq(content[s], pos[s], NewlineFrom(content[s], pos[s]))

(***************************************************************************)
(* C6.  In Reading-Clients, a row whose first field is "CLIENT_LIST" and   *)
(* whose field count differs from the header's field count minus one       *)
(* makes the cycle return failure: the cycle ends with that row, no users  *)
(* sample is dispatched, and the traffic samples dispatched for earlier    *)
(* rows stay dispatched.                                                   *)
(***************************************************************************)
C6_FieldCountMismatch ==
  [][\A s \in sources :
       (pc[s] = "multi2_read" /\ multi[s].found_header /\ pos'[s] # pos[s])
       => LET lines == BodyLines(content[s])
              header == Fields2(lines[Least(HeaderRows(lines))])
              row == Fields2(LineAtPos(s))
          IN (Len(row) >= 1 /\ row[1] = "CLIENT_LIST"
                /\ Len(row) # Len(header) - 1)
             => /\ pc'[s] = "done"
                /\ retval'[s] = -1
                /\ pos'[s] = pos[s] + Len(LineAtPos(s))
                /\ dispatched'[s] = dispatched[s]
                /\ \A i \in DOMAIN dispatched'[s] :
                     ~IsUsers(dispatched'[s][i])]_vars

\* a row of one field too many has ended a cycle that had dispatched a row
C6_Witness ==
  \E s \in sources :
    /\ Failed(s) /\ logged[s] = "Fields count mismatch"
    /\ Len(dispatched[s]) = 1
    /\ pos[s] <= Len(content[s])
    /\ multi[s].columns = 6

(***************************************************************************)
(* C7.  In both multi-client parsers, when the required header line is     *)
(* never found the cycle returns failure and dispatches nothing; as long   *)
(* as the header is not found no row is dispatched or counted.             *)
(***************************************************************************)
\* no header line before the end of the file or the "ROUTING TABLE" line
NoHeaderV1(lines) ==
  \A i \in DOMAIN lines :
    lines[i] = V1HEADER => \E j \in 1..(i - 1) : lines[j] = "ROUTING TABLE\n"

NoHeaderV2(lines) == \A i \in DOMAIN lines : ~IsCompleteHeaderRow(lines[i])

C7_HeaderNeverFound ==
  \A s \in sources :
    /\ ~multi[s].found_header
       => /\ multi[s].sum_users = 0
          /\ pc[s] \in {"multi1_read", "multi2_read"} => dispatched[s] = <<>>
    /\ (Returned(s) /\ Format(content[s]) \in {"multi1_read", "multi2_read"})
       => LET lines == BodyLines(content[s])
          IN (\/ Format(content[s]) = "multi1_read" /\ NoHeaderV1(lines)
              \/ Format(content[s]) = "multi2_read" /\ NoHeaderV2(lines))
             => /\ retval[s] = -1
                /\ dispatched[s] = <<>>
                /\ NoIOError(s) => logged[s] = "Unknown file format"

\* a version 1 file with a client row and no header has been read
C7_Witness ==
  \E s \in sources :
    /\ Returned(s) /\ NoIOError(s)
    /\ content[s] = TITLE_V1 \o "clientA,1.2.3.4,500,700\n" \o "ROUTING TABLE\n"
    /\ collect_individual_users /\ collect_user_count

(***************************************************************************)
(* C8.  Version 2: when the first row with field[0] = "HEADER" and         *)
(* field[1] = "CLIENT_LIST" does not declare all of "Common Name",         *)
(* "Bytes Received" and "Bytes Sent", the pass ends with that row: no      *)
(* later line is read, the cycle returns failure and nothing is            *)
(* dispatched.                                                             *)
(***************************************************************************)
C8_IncompleteHeader ==
  \A s \in sources :
    (Returned(s) /\ logged[s] # "fopen failed"
       /\ Format(content[s]) = "multi2_read")
    => LET lines == BodyLines(content[s])
           first == Least(HeaderRows(lines))
           after == PosAfter(content[s], first)
       IN (HeaderRows(lines) # {} /\ ~IsCompleteHeaderRow(lines[first]))
          => /\ retval[s] = -1
             /\ dispatched[s] = <<>>
             /\ pos[s] <= after
             /\ NoIOError(s)
                => pos[s] = after /\ logged[s] = "Unknown file format"

\* an incomplete header row was followed by a complete one and a client row
C8_Witness ==
  \E s \in sources :
    /\ Returned(s) /\ NoIOError(s)
    /\ content[s] =
         TitleV2
         \o "HEADER,CLIENT_LIST,Common Name,Real Address,Bytes Received,Connected Since\n"
         \o "HEADER,CLIENT_LIST,Common Name,Real Address,Bytes Received,Bytes Sent,Connected Since\n"
         \o "CLIENT_LIST,clientB,5.6.7.8,300,400,Thu Jun 18 04:23:03 2009\n"
    /\ collect_individual_users

(***************************************************************************)
(* C9.  Overhead of the single-endpoint parser.  As claimed: the values    *)
(* dispatched are ((link_rx - pre_decompress) + post_decompress) - tun_rx  *)
(* and ((link_tx - post_compress) + pre_compress) - tun_tx modulo          *)
(* 2^DeriveBits, and equal the mathematical result whenever that is not    *)
(* negative.  As amended: they are the mathematical results wrapped into   *)
(* the range of derive_t, no negative intermediate being clamped, and      *)
(* equal the mathematical result whenever that lies in the range of        *)
(* derive_t.                                                               *)
(***************************************************************************)
MathOverheadRx(c) == c.link_rx - c.pre_decompress + c.post_decompress - c.tun_rx
MathOverheadTx(c) == c.link_tx - c.post_compress + c.pre_compress - c.tun_tx

\* the single-endpoint parser of s has dispatched its samples
SingleDone(s) ==
  Returned(s) /\ Format(content[s]) = "single_read" /\ Len(dispatched[s]) >= 2

Fields1(line) == openvpn_strsplit(line, Multi1MaxFields)

RowSample(name, line) ==
  ClientSample(name, Fields1(line)[1], atoll(Fields1(line)[3]),
               atoll(Fields1(line)[4]))

RECURSIVE RowsStated(_, _, _)
\* as claimed: every line of at least 4 fields after the first header line
RowsStated(name, lines, found) ==
  IF lines = <<>> \/ Head(lines) = "ROUTING TABLE\n" THEN <<>>
  ELSE IF ~found
       THEN RowsStated(name, Tail(lines), Head(lines) = V1HEADER)
  ELSE IF Len(Fields1(Head(lines))) >= 4
       THEN <<RowSample(name, Head(lines))>> \o RowsStated(name, Tail(lines), TRUE)
  ELSE RowsStated(name, Tail(lines), TRUE)

RECURSIVE RowsAmended(_, _, _)
\* as amended: the header line itself is never a row
RowsAmended(name, lines, found) ==
  IF lines = <<>> \/ Head(lines) = "ROUTING TABLE\n" THEN <<>>
  ELSE IF Head(lines) = V1HEADER THEN RowsAmended(name, Tail(lines), TRUE)
  ELSE IF ~found THEN RowsAmended(name, Tail(lines), FALSE)
  ELSE IF Len(Fields1(Head(lines))) >= 4
       THEN <<RowSample(name, Head(lines))>> \o RowsAmended(name, Tail(lines), TRUE)
  ELSE RowsAmended(name, Tail(lines), TRUE)

\* a pass of the version 1 parser over every line, individual users on
V1Pass(s) ==
  /\ Returned(s) /\ NoIOError(s)
  /\ Format(content[s]) = "multi1_read"
  /\ collect_individual_users

C10_V1Rows_Stated ==
  \A s \in sources :
    V1Pass(s) => Traffic(s) = RowsStated(s, BodyLines(content[s]), FALSE)

C10_V1Rows ==
  \A s \in sources :
    V1Pass(s)
    => /\ Traffic(s) = RowsAmended(s, BodyLines(content[s]), FALSE)
       /\ ~NoHeaderV1(BodyLines(content[s])) => retval[s] = 0

\* header, row, "ROUTING TABLE": one sample and success
C10_Witness ==
  \E s \in sources :
    /\ V1Pass(s)
    /\ content[s] = TITLE_V1 \o V1HEADER \o "clientA,1.2.3.4,500,700\n"
                    \o "ROUTING TABLE\n"
    /\ Len(Traffic(s)) = 1

(***************************************************************************)
(* C11.  Version 2, once the header has been found: the first row that     *)
(* has no field or whose field[0] is not "CLIENT_LIST" ("END",             *)
(* "HEADER,ROUTING_TABLE", ...) ends the section.  The cycle returns       *)
(* success with that row; the row adds no traffic sample and no user, the  *)
(* users sample, if collected, carries the rows counted before it, and no  *)
(* line after it is read.                                                  *)
(***************************************************************************)
UsersSample(name, n) ==
  [plugin |-> "openvpn", type |-> "users", values |-> <<n>>,
   plugin_instance |-> name, type_instance |-> name]

C11_SectionEnd ==
  [][\A s \in sources :
       (pc[s] = "multi2_read" /\ multi[s].found_header /\ pos'[s] # pos[s])
       => LET row == Fields2(LineAtPos(s))
          IN (row = <<>> \/ row[1] # "CLIENT_LIST")
             => /\ pc'[s] = "done"
                /\ retval'[s] = 0
                /\ pos'[s] = pos[s] + Len(LineAtPos(s))
                /\ multi'[s].sum_users = multi[s].sum_users
                /\ dispatched'[s] =
                     dispatched[s]
                     \o (IF collect_user_count
                         THEN <<UsersSample(s, multi[s].sum_users)>>
                         ELSE <<>>)]_vars

\* the footer ended a cycle that had dispatched and counted one row, and a
\* "CLIENT_LIST" row after the footer was left unread
C11_Witness ==
  \E s \in sources :
    /\ Succeeded(s) /\ Format(content[s]) = "multi2_read"
    /\ collect_individual_users /\ collect_user_count
    /\ dispatched[s] = <<ClientSample(s, "clientB", 300, 400), UsersSample(s, 1)>>
    /\ pos[s] <= Len(content[s])
    /\ Fields2(LineAtPos(s))[1] = "CLIENT_LIST"

(***************************************************************************)
(* C12.  User count of both multi-client parsers.  When user counts are    *)
(* collected and the cycle succeeds, exactly one users sample is           *)
(* dispatched, after every traffic sample of the cycle, with the source    *)
(* name as plugin instance and as type instance, and its value is the      *)
(* number of data rows the pass accepted (0 for an empty client list),     *)
(* whether or not individual users are collected.  When user counts are    *)
(* not collected or the cycle fails, no users sample is dispatched.        *)
(***************************************************************************)
RECURSIVE ClientRows(_)
\* the number of rows with field[0] = "CLIENT_LIST" at the head of lines
ClientRows(lines) ==
  IF lines = <<>> THEN 0
  ELSE LET f == Fields2(Head(lines))
       IN IF f = <<>> \/ f[1] # "CLIENT_LIST" THEN 0
          ELSE 1 + ClientRows(Tail(lines))

\* the data rows of a file, by its format
AcceptedRows(name, str) ==
  LET lines == BodyLines(str)
  IN IF Format(str) = "multi1_read"
     THEN Len(RowsAmended(name, lines, FALSE))
     ELSE IF HeaderRows(lines) = {} THEN 0
     ELSE ClientRows(SubSeq(lines, Least(HeaderRows(lines)) + 1, Len(lines)))

Users(s) == SelectSeq(dispatched[s], IsUsers)

C12_UserCount ==
  \A s \in sources :
    (Returned(s) /\ Format(content[s]) \in {"multi1_read", "multi2_read"})
    => IF collect_user_count /\ retval[s] = 0
       THEN dispatched[s] =
              Traffic(s) \o <<UsersSample(s, AcceptedRows(s, content[s]))>>
       ELSE Users(s) = <<>>

\* one row counted and no traffic sample: individual users are not
\* collected
C12_Witness ==
  \E s \in sources :
    /\ Succeeded(s) /\ Format(content[s]) \in {"multi1_read", "multi2_read"}
    /\ collect_user_count /\ ~collect_individual_users
    /\ dispatched[s] = <<UsersSample(s, 1)>>

(***************************************************************************)
(* C13.  Client rows of both multi-client parsers.  A step that reads a    *)
(* data row dispatches, when individual users are collected, exactly one   *)
(* traffic sample: plugin instance the source name and type instance the   *)
(* client when the new naming schema is set, plugin instance the client    *)
(* and no type instance otherwise; when individual users are not           *)
(* collected no traffic sample is dispatched for any row.  The version 1   *)
(* row "clientA,1.2.3.4,500,700" under the old schema gives plugin         *)
(* instance "clientA", no type instance, rx = 500, tx = 700.               *)
(***************************************************************************)
\* the next fgets of s reads a data row of version 1
DataRow1(s) ==
  /\ pc[s] = "multi1_read" /\ multi[s].found_header
  /\ pos[s] <= Len(content[s])
  /\ LineAtPos(s) \notin {"ROUTING TABLE\n", V1HEADER}
  /\ Len(Fields1(LineAtPos(s))) >= 4

\* the next fgets of s reads a data row of version 2
DataRow2(s) ==
  /\ pc[s] = "multi2_read" /\ multi[s].found_header
  /\ pos[s] <= Len(content[s])
  /\ LET f == Fields2(LineAtPos(s))
     IN f # <<>> /\ f[1] = "CLIENT_LIST" /\ Len(f) = multi[s].columns

\* client, bytes received and bytes sent of the data row s reads next
RowValues(s) ==
  IF pc[s] = "multi1_read"
  THEN LET f == Fields1(LineAtPos(s))
       IN <<f[1], atoll(f[3]), atoll(f[4])>>
  ELSE LET f == Fields2(LineAtPos(s))
       IN <<f[multi[s].idx_cname + 1], atoll(f[multi[s].idx_bytes_recv + 1]),
            atoll(f[multi[s].idx_bytes_sent + 1])>>

C13_ClientRows ==
  [][\A s \in sources :
       /\ (pos'[s] # pos[s] /\ (DataRow1(s) \/ DataRow2(s)))
          => LET v == RowValues(s)
                 vl == [plugin |-> "openvpn", type |-> "if_octets",
                        values |-> <<v[2], v[3]>>,
                        plugin_instance |-> IF new_naming_schema THEN s ELSE v[1],
                        type_instance |-> IF new_naming_schema THEN v[1] ELSE ""]
             IN /\ dispatched'[s] =
                     dispatched[s]
                     \o (IF collect_individual_users THEN <<vl>> ELSE <<>>)
                /\ (LineAtPos(s) = "clientA,1.2.3.4,500,700\n"
                      /\ ~new_naming_schema /\ collect_individual_users)
                   => dispatched'[s][Len(dispatched'[s])] =
                        [plugin |-> "openvpn", type |-> "if_octets",
                         plugin_instance |-> "clientA", type_instance |-> "",
                         values |-> <<500, 700>>]
       /\ (pc[s] \in {"multi1_read", "multi2_read"}
             /\ ~collect_individual_users)
          => Traffic(s)' = <<>>]_vars

\* Scenario B has been read under the old naming schema
C13_Witness ==
  \E s \in sources :
    /\ Succeeded(s) /\ ~new_naming_schema /\ collect_individual_users
    /\ content[s] = TITLE_V1 \o V1HEADER \o "clientA,1.2.3.4,500,700\n"
                    \o "ROUTING TABLE\n"
    /\ Traffic(s) = <<[plugin |-> "openvpn", type |-> "if_octets",
                       plugin_instance |-> "clientA", type_instance |-> "",
                       values |-> <<500, 700>>]>>

(***************************************************************************)
(* C14.  Format detection.  A read cycle whose file opens reads one title  *)
(* line and then runs one parser on the lines after it: single_read for    *)
(* the title "OpenVPN STATISTICS", multi1_read for "OpenVPN CLIENT LIST",  *)
(* multi2_read for a title that begins with "TITLE"; for any other title,  *)
(* and for a file without a line, the cycle returns failure and            *)
(* dispatches nothing.  As claimed, the title is the text of the first     *)
(* line; as amended, the two exact titles are matched together with the    *)
(* newline that ends the line, so that a first line "OpenVPN STATISTICS"   *)
(* or "OpenVPN CLIENT LIST" that no newline ends is an unknown title.      *)
(***************************************************************************)
\* the first line of a file with its newline, "" for a file without a line
TitleLine(str) == IF str = "" THEN "" ELSE SubSeq(str, 1, NewlineFrom(str, 1))

\* a line without the newline that ends it
LineText(line) ==
  IF line # "" /\ CharAt(line, Len(line)) = "\n"
  THEN SubSeq(line, 1, Len(line) - 1)
  ELSE line

BeginsWithTITLE(line) == Len(line) >= 5 /\ SubSeq(line, 1, 5) = "TITLE"

\* as claimed: the parser of a title line, "" for none
ParserOfText(line) ==
  IF LineText(line) = "OpenVPN STATISTICS" THEN "single_read"
  ELSE IF LineText(line) = "OpenVPN CLIENT LIST" THEN "multi1_read"
  ELSE IF BeginsWithTITLE(line) THEN "multi2_read"
  ELSE ""

\* as amended
ParserOfLine(line) ==
  IF line = "OpenVPN STATISTICS\n" THEN "single_read"
  ELSE IF line = "OpenVPN CLIENT LIST\n" THEN "multi1_read"
  ELSE IF BeginsWithTITLE(line) THEN "multi2_read"
  ELSE ""

Parsers == {"single_read", "multi1_read", "multi2_read"}

\* the step of s is the one that detects the format as parser, or is a step
\* of the parser it has entered
DetectionStep(s, parser) ==
  /\ (pc[s] = "idle" /\ pc'[s] # "idle" /\ logged'[s] # "fopen failed")
     => IF TitleLine(content[s]) = "" \/ ferr'[s]
        THEN pc'[s] = "done" /\ retval'[s] = -1 /\ dispatched'[s] = <<>>
        ELSE /\ pos'[s] = 1 + Len(TitleLine(content[s]))
             /\ dispatched'[s] = <<>>
             /\ IF parser = ""
                THEN pc'[s] = "done" /\ retval'[s] = -1
                ELSE pc'[s] = parser
  /\ pc[s] \in Parsers => pc'[s] \in {pc[s], "done"}

C14_Detection_Stated ==
  [][\A s \in sources :
       DetectionStep(s, ParserOfText(TitleLine(content[s])))]_vars

C14_Detection ==
  [][\A s \in sources :
       DetectionStep(s, ParserOfLine(TitleLine(content[s])))]_vars

\* the version 2 parser has been entered after a title longer than "TITLE"
C14_Witness ==
  \E s \in sources :
    /\ pc[s] = "multi2_read" /\ TitleLine(content[s]) = TitleV2
    /\ pos[s] = 1 + Len(TitleV2)

(***************************************************************************)
(* C15.  What a single-endpoint pass dispatches, in this order: one        *)
(* "traffic" sample (link_rx, link_tx), one "overhead" sample, and then,   *)
(* if and only if compression is collected, "data_in" = (post_decompress,  *)
(* pre_decompress) and "data_out" = (pre_compress, post_compress); two     *)
(* samples when compression is not collected.  The accumulators are those  *)
(* of the file's lines: for a file as OpenVPN prints it they are the       *)
(* eight numbers printed.                                                  *)
(***************************************************************************)
SingleSequence(name, c) ==
  <<SingleSample(name, "if_octets", "traffic", c.link_rx, c.link_tx),
    SingleSample(name, "if_octets", "overhead",
                 derive_t(MathOverheadRx(c)), derive_t(MathOverheadTx(c)))>>
  \o (IF collect_compression
      THEN <<SingleSample(name, "compression", "data_in",
                          c.post_decompress, c.pre_decompress),
             SingleSample(name, "compression", "data_out",
                          c.pre_compress, c.post_compress)>>
      ELSE <<>>)

C15_SingleSequence ==
  \A s \in sources :
    (Succeeded(s) /\ Format(content[s]) = "single_read")
    => /\ dispatched[s] = SingleSequence(s, counters[s])
       /\ Len(dispatched[s]) = IF collect_compression THEN 4 ELSE 2
       /\ \A c \in StatisticsCounters :
            (content[s] = Statistics(c) /\ NoIOError(s))
            => dispatched[s] = SingleSequence(s, c)

\* a file whose four compression counters differ in each direction has been
\* read with compression collected
C15_Witness ==
  \E s \in sources : \E c \in StatisticsCounters :
    /\ Succeeded(s) /\ NoIOError(s) /\ content[s] = Statistics(c)
    /\ collect_compression
    /\ c.post_decompress # c.pre_decompress /\ c.pre_compress # c.post_compress
    /\ Len(dispatched[s]) = 4

(***************************************************************************)
(* C16.  A single-endpoint file that is only the title line, or the title  *)
(* line followed only by lines whose first field is none of the eight      *)
(* keys: the cycle succeeds and dispatches traffic (0, 0) and overhead     *)
(* (0, 0), and with compression collected data_in (0, 0) and data_out      *)
(* (0, 0).                                                                 *)
(***************************************************************************)
RecognizedKeys ==
  {"TUN/TAP read bytes", "TUN/TAP write bytes", "TCP/UDP read bytes",
   "TCP/UDP write bytes", "pre-compress bytes", "post-compress bytes",
   "pre-decompress bytes", "post-decompress bytes"}

\* the text of a line before its first comma or tab
FirstField(line) ==
  LET f == openvpn_strsplit(line, SingleMaxFields)
  IN IF f = <<>> THEN "" ELSE f[1]

NoRecognizedKey(lines) ==
  \A i \in DOMAIN lines : FirstField(lines[i]) \notin RecognizedKeys

\* the cycle of s has returned and its first fgets gave a title line
TitleRead(s) ==
  Returned(s) /\ logged[s] \notin {"fopen failed", "failed to get data"}

C16_TitleOnly ==
  \A s \in sources :
    (TitleRead(s) /\ Format(content[s]) = "single_read"
       /\ NoRecognizedKey(BodyLines(content[s])))
    => /\ retval[s] = 0
       /\ dispatched[s] =
            <<SingleSample(s, "if_octets", "traffic", 0, 0),
              SingleSample(s, "if_octets", "overhead", 0, 0)>>
            \o (IF collect_compression
                THEN <<SingleSample(s, "compression", "data_in", 0, 0),
                       SingleSample(s, "compression", "data_out", 0, 0)>>
                ELSE <<>>)

\* the file that is only the title line has been read, compression
\* collected
C16_Witness ==
  \E s \in sources :
    /\ TitleRead(s) /\ NoIOError(s) /\ content[s] = "OpenVPN STATISTICS\n"
    /\ collect_compression /\ Len(dispatched[s]) = 4

(***************************************************************************)
(* A read cycle that runs alone and meets no I/O error, as a function of   *)
(* the file: the lines are handed one by one to the loop body of the       *)
(* parser the title selects.                                               *)
(***************************************************************************)
RECURSIVE AloneSingle(_, _, _)
AloneSingle(name, c, lines) ==
  IF lines = <<>>
  THEN [retval |-> 0, dispatched |-> SingleSubmit(name, c, collect_compression)]
  ELSE AloneSingle(name, SingleLine(c, Head(lines)), Tail(lines))

RECURSIVE AloneMulti1(_, _, _, _)
AloneMulti1(name, m, out, lines) ==
  IF lines = <<>>
  THEN LET f == Multi1Return(name, m, FALSE)
       IN [retval |-> f.ret, dispatched |-> out \o f.out]
  ELSE LET r == Multi1Line(name, m, Head(lines))
       IN IF r.ctl = "break"
          THEN LET f == Multi1Return(name, r.m, FALSE)
               IN [retval |-> f.ret, dispatched |-> out \o r.out \o f.out]
          ELSE AloneMulti1(name, r.m, out \o r.out, Tail(lines))

RECURSIVE AloneMulti2(_, _, _, _)
AloneMulti2(name, m, out, lines) ==
  IF lines = <<>>
  THEN LET f == Multi2Return(name, m, FALSE)
       IN [retval |-> f.ret, dispatched |-> out \o f.out]
  ELSE LET r == Multi2Line(name, m, Head(lines))
       IN IF r.ctl = "break"
          THEN LET f == Multi2Return(name, r.m, FALSE)
               IN [retval |-> f.ret, dispatched |-> out \o r.out \o f.out]
          ELSE IF r.ctl = "return"
          THEN [retval |-> -1, dispatched |-> out \o r.out]
          ELSE AloneMulti2(name, r.m, out \o r.out, Tail(lines))

Alone(name, str) ==
  LET parser == IF str = "" THEN "" ELSE Detect(TitleLine(str))
      lines == BodyLines(str)
  IN IF parser = "single_read" THEN AloneSingle(name, SingleLocals, lines)
     ELSE IF parser = "multi1_read"
          THEN AloneMulti1(name, MultiLocals, <<>>, lines)
     ELSE IF parser = "multi2_read"
          THEN AloneMulti2(name, MultiLocals, <<>>, lines)
     ELSE [retval |-> -1, dispatched |-> <<>>]

(***************************************************************************)
(* C17.  Read cycles of different sources that interleave line by line     *)
(* are independent: a cycle that meets no I/O error returns and            *)
(* dispatches what it returns and dispatches when it runs alone on the     *)
(* same file under the same flags, whatever the other cycle does and       *)
(* whether the other cycle fails; no step of a cycle writes a              *)
(* configuration flag or the state of another source.                      *)
(***************************************************************************)
\* the state of the read cycle of one source
CycleState(s) ==
  <<pc[s], content[s], pos[s], ferr[s], counters[s], multi[s], dispatched[s],
    logged[s], retval[s]>>

SameAsAlone ==
  \A s \in sources :
    (Returned(s) /\ NoIOError(s))
    => /\ retval[s] = Alone(s, content[s]).retval
       /\ dispatched[s] = Alone(s, content[s]).dispatched

NoCrossWrites ==
  /\ flags' = flags
  /\ \A s, u \in Names :
       (s # u /\ CycleState(s)' # CycleState(s))
       => CycleState(u)' = CycleState(u)

C17_Independence == []SameAsAlone /\ [][NoCrossWrites]_vars

\* the version 1 cycle of one source has succeeded with its sample although
\* the other source entered its parser while this one was reading client
\* rows, and the cycle of the other source has failed
C17_Witness ==
  \E s, u \in sources :
    /\ s # u
    /\ Succeeded(s) /\ Format(content[s]) = "multi1_read"
    /\ collect_individual_users /\ Len(Traffic(s)) = 1
    /\ Failed(u) /\ logged[u] = "Fields count mismatch"

(***************************************************************************)
(* C18.  Two read cycles in succession on the same file that is not        *)
(* rewritten, neither meeting an I/O error, return the same result and     *)
(* dispatch the same samples in the same order; a parser is entered with   *)
(* every accumulator, the user count, the header flag and the column map   *)
(* at their initial values, whatever the cycle before left.                *)
(***************************************************************************)
C18_Idempotence ==
  \A s \in sources :
    /\ (Returned(s) /\ cycle[s] >= 2 /\ NoIOError(s) /\ ~previous[s].io_error)
       => /\ retval[s] = previous[s].retval
          /\ dispatched[s] = previous[s].dispatched
    /\ (pc[s] \in Parsers /\ pos[s] = 1 + Len(TitleLine(content[s])))
       => /\ counters[s] =
               [link_rx |-> 0, link_tx |-> 0, tun_rx |-> 0, tun_tx |-> 0,
                pre_compress |-> 0, post_compress |-> 0,
                pre_decompress |-> 0, post_decompress |-> 0]
          /\ multi[s] =
               [sum_users |-> 0, found_header |-> FALSE, idx_cname |-> 0,
                idx_bytes_recv |-> 0, idx_bytes_sent |-> 0, columns |-> 0]

\* a second cycle has dispatched a client row and a user count of 1 again
C18_Witness ==
  \E s \in sources :
    /\ Succeeded(s) /\ cycle[s] = 2 /\ NoIOError(s) /\ ~previous[s].io_error
    /\ Format(content[s]) \in {"multi1_read", "multi2_read"}
    /\ Len(Traffic(s)) = 1
    /\ Users(s) = <<UsersSample(s, 1)>>
    /\ previous[s].dispatched = dispatched[s]

(***************************************************************************)
(* C19.  Initialization.  The flags start as compression on, individual    *)
(* users on, old naming schema, user count off.  After any sequence of     *)
(* configuration directives, openvpn_init fails if and only if the         *)
(* compression, user count and individual users flags are all off at that  *)
(* moment; without any directive it succeeds; the naming schema has no     *)
(* part in it.                                                             *)
(***************************************************************************)
Defaults ==
  /\ collect_compression /\ collect_individual_users
  /\ ~new_naming_schema /\ ~collect_user_count

NothingToCollect ==
  ~collect_compression /\ ~collect_user_count /\ ~collect_individual_users

C19_InitGating ==
  /\ [](last_config = NoConfig => Defaults)
  /\ [](phase # "config" => (phase = "failed" <=> NothingToCollect))
  /\ [][(phase = "config" /\ phase' # "config" /\ last_config = NoConfig)
          => phase' = "initialized"]_vars

\* openvpn_init has failed under the new naming schema with a source
\* registered
C19_Witness ==
  /\ phase = "failed" /\ new_naming_schema /\ instances # <<>>
  /\ last_config.key = "CollectIndividualUsers"

(***************************************************************************)
(* C20.  Registered sources.  After any sequence of StatusFile             *)
(* directives the file names (the paths after their last '/') of the       *)
(* registered sources are pairwise distinct; a StatusFile directive whose  *)
(* path has the file name of a registered source, in the same or another   *)
(* directory, returns an error and leaves the registered sources as they   *)
(* were.                                                                   *)
(***************************************************************************)
RECURSIVE Basename(_)
Basename(path) ==
  IF \E i \in 1..Len(path) : CharAt(path, i) = "/"
  THEN Basename(SubSeq(path, 1 + (CHOOSE i \in 1..Len(path) : CharAt(path, i) = "/"),
                       Len(path)))
  ELSE path

Registered(path) ==
  \E i \in DOMAIN instances : Basename(instances[i].file) = Basename(path)

C20_UniqueSources ==
  /\ [](\A i, j \in DOMAIN instances :
          i # j => Basename(instances[i].file) # Basename(instances[j].file))
  /\ [][(last_config' # last_config
           /\ last_config'.key \in {"StatusFile", "statusfile"}
           /\ Registered(last_config'.value))
          => /\ last_config'.ret \in {-1, 1}
             /\ instances' = instances
             /\ sources' = sources]_vars

\* the file name of a registered source has been refused in another
\* directory, a second source being registered too
C20_Witness ==
  /\ last_config = [key |-> "StatusFile", value |-> "/etc/openvpn/server.status",
                    ret |-> -1]
  /\ Len(instances) = 2
  /\ \E i \in DOMAIN instances : instances[i].file = "/var/run/server.status"

(***************************************************************************)
(* C21.  The line filter of single_read: a line that has more or fewer     *)
(* than two non-empty fields between its delimiters leaves the eight       *)
(* counters as they are, even if its first field is one of the eight keys; *)
(* so does a line of two fields whose first field is none of the keys; a   *)
(* line of two fields whose first field is a key changes no counter but    *)
(* the one of that key.                                                    *)
(***************************************************************************)
\* a line without the "\n" that ends it
Chomp(line) ==
  IF Len(line) > 0 /\ CharAt(line, Len(line)) = "\n"
  THEN SubSeq(line, 1, Len(line) - 1)
  ELSE line

\* the non-empty fields between the delimiters of a line
LineFields(line) == openvpn_strsplit(Chomp(line), BufferSize)

\* the counter a key is stored in
AccumulatorOf(key) ==
  CASE key = "TUN/TAP read bytes" -> "tun_tx"
    [] key = "TUN/TAP write bytes" -> "tun_rx"
    [] key = "TCP/UDP read bytes" -> "link_rx"
    [] key = "TCP/UDP write bytes" -> "link_tx"
    [] key = "pre-compress bytes" -> "pre_compress"
    [] key = "post-compress bytes" -> "post_compress"
    [] key = "pre-decompress bytes" -> "pre_decompress"
    [] key = "post-decompress bytes" -> "post_decompress"

Accumulators == DOMAIN SingleLocals

\* this step is an iteration of the loop of single_read for s
SingleLineStep(s) == pc[s] = "single_read" /\ pos'[s] # pos[s]
\* the line that iteration reads
LineOfStep(s) == SubSeq(content[s], pos[s], pos'[s] - 1)

\* the effect on the counters of s of a line whose fields are f
FilterEffect(s, f) ==
  IF Len(f) # 2 \/ f[1] \notin RecognizedKeys
  THEN counters'[s] = counters[s]
  ELSE \A a \in Accumulators \ {AccumulatorOf(f[1])} :
         counters'[s][a] = counters[s][a]

C21_LineFilter ==
  [][\A s \in sources :
       SingleLineStep(s) => FilterEffect(s, LineFields(LineOfStep(s)))]_vars

\* C21 as single_read has it: the same, for the fields that
\* openvpn_strsplit finds, the last of which holds the "\n" of the line
C21_TokenizedLineFilter ==
  [][\A s \in sources :
       SingleLineStep(s)
       => FilterEffect(s, openvpn_strsplit(LineOfStep(s), SingleMaxFields))]_vars

\* link_rx was 1000 and the line "TCP/UDP read bytes," without value has
\* been read
C21_EmptyValueRead ==
  \E s \in sources :
    /\ content[s] = TITLE_SINGLE \o "TCP/UDP read bytes,1000\n"
                       \o "TCP/UDP read bytes,\n"
    /\ pc[s] = "single_read" /\ pos[s] > Len(content[s])
    /\ ~ferr[s]
    /\ counters[s].link_rx = 0

====
